---------------------------- MODULE Spec2Model ----------------------------
(***************************************************************************)
(* State-machine model of two scripts of the repository.  The dialog of    *)
(* scripts/shapefile_filters_by_attribute_values.py has a section of its   *)
(* own further down.  scripts/pdf_image_extractor_with_overlay_grid_       *)
(* with_panout.py: the InteractiveImageLabel view (zoom, pan, coordinate   *)
(* conversion) and the PDFImageExtractor session (document load, image     *)
(* selection, grid overlay, point query, region scan, export).             *)
(*                                                                         *)
(* Conventions.  Strings the code inspects character by character are      *)
(* sequences of one-character strings.  scale_factor is an exact fraction  *)
(* <<numerator, denominator>> in lowest terms.  Document coordinates kept  *)
(* in a data point are in tenths of a document unit (the code holds floats *)
(* that are whole or half units); every other length is in whole units.    *)
(* Page numbers, image indices and combo box indices count from 0 as in    *)
(* the code.  The label's one-pixel frame is not modelled.  Quotients and products of coordinates are computed exactly   *)
(* (the code's doubles can fall one unit short where the exact result is   *)
(* whole).  The texts of the title label and of the zoom label, the      *)
(* cursor shape and save_to_file are not part of the model.                *)
(***************************************************************************)
EXTENDS Integers, Sequences, FiniteSets, TLC

(***************************************************************************)
(* Arithmetic of the Python and Qt primitives the code calls.              *)
(***************************************************************************)
Abs(a) == IF a < 0 THEN -a ELSE a

Max2(a, b) == IF a >= b THEN a ELSE b

Min2(a, b) == IF a <= b THEN a ELSE b

\* Python int(a / b) for b > 0: truncation toward zero.
TruncDiv(a, b) == IF a >= 0 THEN a \div b ELSE -((-a) \div b)

\* Qt qRound(a / b) for a >= 0, b > 0: half rounds up.
RoundDiv(a, b) == (2 * a + b) \div (2 * b)

RECURSIVE Gcd(_, _)
Gcd(a, b) == IF b = 0 THEN a ELSE Gcd(b, a % b)

\* A fraction n/d (n >= 0, d > 0) in lowest terms.
Frac(n, d) == LET g == Gcd(n, d) IN <<n \div g, d \div g>>

FracLess(p, q) == p[1] * q[2] < q[1] * p[2]

FracMul(p, q) == Frac(p[1] * q[1], p[2] * q[2])

FracMax(p, q) == IF FracLess(p, q) THEN q ELSE p

FracMin(p, q) == IF FracLess(q, p) THEN q ELSE p

(***************************************************************************)
(* Text: re.findall(r'-?\d+\.?\d*', text), str.strip, float, str, format.  *)
(***************************************************************************)
Digits == {"0", "1", "2", "3", "4", "5", "6", "7", "8", "9"}

IsDigit(c) == c \in Digits

DigitVal(c) ==
    CASE c = "0" -> 0 [] c = "1" -> 1 [] c = "2" -> 2 [] c = "3" -> 3
      [] c = "4" -> 4 [] c = "5" -> 5 [] c = "6" -> 6 [] c = "7" -> 7
      [] c = "8" -> 8 [] c = "9" -> 9

DigitChar(n) ==
    CASE n = 0 -> "0" [] n = 1 -> "1" [] n = 2 -> "2" [] n = 3 -> "3"
      [] n = 4 -> "4" [] n = 5 -> "5" [] n = 6 -> "6" [] n = 7 -> "7"
      [] n = 8 -> "8" [] n = 9 -> "9"

\* First index >= i of text that holds no digit (Len(text) + 1 if none).
RECURSIVE DigitsEnd(_, _)
DigitsEnd(text, i) ==
    IF i <= Len(text) /\ IsDigit(text[i]) THEN DigitsEnd(text, i + 1) ELSE i

\* Index just past the match of -?\d+\.?\d* that starts at i, or 0 if the
\* pattern does not match at i.
MatchEnd(text, i) ==
    LET s == IF text[i] = "-" THEN i + 1 ELSE i
        e == DigitsEnd(text, s)
    IN  IF e = s THEN 0
        ELSE IF e <= Len(text) /\ text[e] = "." THEN DigitsEnd(text, e + 1)
        ELSE e

\* re.findall: the non-overlapping matches, scanning from index i.
RECURSIVE FindAllFrom(_, _)
FindAllFrom(text, i) ==
    IF i > Len(text) THEN << >>
    ELSE LET e == MatchEnd(text, i)
         IN  IF e = 0 THEN FindAllFrom(text, i + 1)
             ELSE <<SubSeq(text, i, e - 1)>> \o FindAllFrom(text, e)

FindAll(text) == FindAllFrom(text, 1)

RECURSIVE LStrip(_)
LStrip(text) ==
    IF text # << >> /\ Head(text) = " " THEN LStrip(Tail(text)) ELSE text

RECURSIVE RStrip(_)
RStrip(text) ==
    IF text # << >> /\ text[Len(text)] = " "
    THEN RStrip(SubSeq(text, 1, Len(text) - 1)) ELSE text

\* str.strip()
Strip(text) == RStrip(LStrip(text))

\* Value of a run of digits read as a decimal numeral.
RECURSIVE DigitsValue(_)
DigitsValue(ds) ==
    IF ds = << >> THEN 0
    ELSE 10 * DigitsValue(SubSeq(ds, 1, Len(ds) - 1)) + DigitVal(ds[Len(ds)])

\* Decimal numeral of n >= 0.
RECURSIVE NatStr(_)
NatStr(n) ==
    IF n < 10 THEN <<DigitChar(n)>> ELSE NatStr(n \div 10) \o <<DigitChar(n % 10)>>

RECURSIVE Pow10(_)
Pow10(k) == IF k = 0 THEN 1 ELSE 10 * Pow10(k - 1)

\* A float with a finite decimal expansion: (-1)^neg * m / 10^e, with no
\* trailing zero in the fraction digits.
RECURSIVE NormFloat(_, _, _)
NormFloat(neg, m, e) ==
    IF e > 0 /\ m % 10 = 0 THEN NormFloat(neg, m \div 10, e - 1)
    ELSE [neg |-> neg, m |-> m, e |-> e]

\* float(number) for a string matched by -?\d+\.?\d* .
ParseFloat(number) ==
    LET neg  == Head(number) = "-"
        body == IF neg THEN Tail(number) ELSE number
        ie   == DigitsEnd(body, 1)
        ip   == SubSeq(body, 1, ie - 1)
        fp   == SubSeq(body, ie + 1, Len(body))
    IN  NormFloat(neg, DigitsValue(ip) * Pow10(Len(fp)) + DigitsValue(fp), Len(fp))

\* n written with at least k digits.
RECURSIVE PadStr(_, _)
PadStr(n, k) ==
    IF k <= 1 THEN NatStr(n)
    ELSE PadStr(n \div 10, k - 1) \o <<DigitChar(n % 10)>>

\* str(float): the shortest decimal form, always with a fraction part.
FloatStr(f) ==
    (IF f.neg THEN <<"-">> ELSE << >>)
      \o NatStr(f.m \div Pow10(f.e)) \o <<".">>
      \o (IF f.e = 0 THEN <<"0">> ELSE PadStr(f.m % Pow10(f.e), f.e))

\* f"{v:.1f}" for a coordinate held in tenths.
FormatF1(t) ==
    (IF t < 0 THEN <<"-">> ELSE << >>)
      \o NatStr(Abs(t) \div 10) \o <<".", DigitChar(Abs(t) % 10)>>


(***************************************************************************)
(* Geometry: fitz.Rect, QSize scaling, the two coordinate conversions.     *)
(***************************************************************************)
Rect(x0, y0, x1, y1) == [x0 |-> x0, y0 |-> y0, x1 |-> x1, y1 |-> y1]

RectWidth(r) == Max2(0, r.x1 - r.x0)

RectHeight(r) == Max2(0, r.y1 - r.y0)

\* Non-empty intersection of two rectangles.
Intersects(a, b) ==
    /\ Max2(a.x0, b.x0) < Min2(a.x1, b.x1)
    /\ Max2(a.y0, b.y0) < Min2(a.y1, b.y1)

\* original_pixmap.size() * scale_factor, then .scaled(.., KeepAspectRatio):
\* the size of current_pixmap for an original of w x h pixels.
ScaledSize(w, h, sf) ==
    LET sw == RoundDiv(w * sf[1], sf[2])
        sh == RoundDiv(h * sf[1], sf[2])
        rw == (sh * w) \div h
    IN  IF sw <= 0 \/ sh <= 0 THEN <<0, 0>>
        ELSE IF rw <= sw THEN <<Max2(rw, 1), Max2(sh, 1)>>
        ELSE <<Max2(sw, 1), Max2((sw * h) \div w, 1)>>

WidgetW == 400

WidgetH == 400

\* Where update_display paints current_pixmap in a pixmap of the widget's
\* size, and where widget_to_image_coords assumes it is.
DrawPos(widget_size, cur, pan) ==
    <<(widget_size[1] - cur[1]) \div 2 + pan[1],
      (widget_size[2] - cur[2]) \div 2 + pan[2]>>

widget_to_image_coords(widget_pos, has_pixmap, widget_size, cur, pan, sf) ==
    IF ~has_pixmap THEN <<0, 0>>
    ELSE LET draw_pos   == DrawPos(widget_size, cur, pan)
             scaled_pos == <<widget_pos[1] - draw_pos[1], widget_pos[2] - draw_pos[2]>>
         IN  <<TruncDiv(scaled_pos[1] * sf[2], sf[1]),
               TruncDiv(scaled_pos[2] * sf[2], sf[1])>>

\* image_to_pdf_coords for an original pixmap of pw x ph pixels (both > 0)
\* placed on img_rect: a QPoint, both coordinates truncated to integers.
ImageToPdf(image_pos, img_rect, pw, ph) ==
    <<TruncDiv(img_rect.x0 * pw + image_pos[1] * RectWidth(img_rect), pw),
      TruncDiv(img_rect.y1 * ph - image_pos[2] * RectHeight(img_rect), ph)>>

\* The overlay renderer's document-to-pixel mapping of a coordinate given in
\* tenths: int((pdf_x - img_rect.x0) * scale_x), scale_x = pixels / extent,
\* or 1 when the extent is not positive.
PdfToPixel(off10, pixels, extent) ==
    IF extent > 0 THEN TruncDiv(off10 * pixels, 10 * extent)
    ELSE TruncDiv(off10, 10)


(***************************************************************************)
(* The documents fitz.open can return.  A document is a sequence of pages; *)
(* a page has its rectangle, the images get_page_images lists (null: the   *)
(* bytes QImage.fromData cannot decode; rects: get_image_rects) and the    *)
(* blocks of its text layer, in the layer's order.  A text block is a      *)
(* sequence of lines, a line a sequence of spans; an image block has no    *)
(* "lines" key.                                                            *)
(***************************************************************************)
(***************************************************************************)
Span(text, bbox) == [text |-> text, bbox |-> bbox]

TextBlock(lines) == [has_lines |-> TRUE, lines |-> lines]

ImageBlock == [has_lines |-> FALSE, lines |-> << >>]

Image(null, w, h, rects) == [null |-> null, w |-> w, h |-> h, rects |-> rects]

TxtTemp == <<"T", "e", "m", "p", ":", " ", "2", "3", ".", "5", "C">>

TxtSeven == <<"7">>

TxtSevenEight == <<"7", " ", "8">>

TxtTwelve == <<"1", "2">>

TxtThreeFour == <<"3", ".", "4">>

TxtNoNumbers == <<"n", "o", " ", "n", "u", "m", "b", "e", "r", "s", " ", "h", "e", "r", "e">>

TxtMinusFour == <<" ", "-", "4", " ">>

TxtNA == <<"n", "/", "a">>

PageA0 ==
    [rect   |-> Rect(0, 0, 100, 200),
     images |-> <<Image(FALSE, 2000, 2000, <<Rect(0, 100, 100, 200)>>),
                  Image(FALSE, 800, 400, <<Rect(10, 20, 50, 40)>>)>>,
     blocks |-> <<TextBlock(<< <<Span(TxtTemp, Rect(20, 140, 60, 150))>>,
                               <<Span(TxtSevenEight, Rect(40, 152, 50, 160))>> >>),
                  ImageBlock,
                  TextBlock(<< <<Span(TxtTwelve, Rect(12, 22, 18, 28)),
                                 Span(TxtThreeFour, Rect(20, 22, 29, 28)),
                                 Span(TxtNoNumbers, Rect(30, 22, 49, 28))>> >>)>>]

PageA1 ==
    [rect   |-> Rect(0, 0, 50, 50),
     images |-> <<Image(TRUE, 0, 0, << >>),
                  Image(FALSE, 1000, 1000, << >>)>>,
     blocks |-> <<TextBlock(<< <<Span(TxtMinusFour, Rect(0, 0, 4, 4))>>,
                               <<Span(TxtNA, Rect(0, 6, 4, 10))>> >>)>>]

PageB0 ==
    [rect   |-> Rect(0, 0, 50, 50),
     images |-> <<Image(TRUE, 0, 0, << >>)>>,
     blocks |-> <<TextBlock(<< <<Span(TxtSeven, Rect(5, 5, 9, 10))>> >>)>>]

\* Document 1 has three usable images on two pages, document 2 has none.
Documents == << <<PageA0, PageA1>>, <<PageB0>> >>

DocIds == 1 .. Len(Documents)

\* None: current_page, image_info and original_pixmap before the first
\* display; self.doc is 0 before the first load.
None == [none |-> TRUE]

NoDoc == 0

\* The page object self.doc[page_number] (page numbers count from 0).
Page(d, page_number) == [doc |-> d, number |-> page_number]

\* page.get_text("dict", clip = rect): the blocks of the page, each line
\* keeping the spans that intersect the clip rectangle.
RECURSIVE ClipSpans(_, _)
ClipSpans(spans, clip) ==
    IF spans = << >> THEN << >>
    ELSE (IF Intersects(Head(spans).bbox, clip) THEN <<Head(spans)>> ELSE << >>)
           \o ClipSpans(Tail(spans), clip)

get_text(page, clip) ==
    LET blocks == Documents[page.doc][page.number + 1].blocks
    IN  [b \in 1 .. Len(blocks) |->
           [has_lines |-> blocks[b].has_lines,
            lines |-> [l \in 1 .. Len(blocks[b].lines) |->
                         ClipSpans(blocks[b].lines[l], clip)]]]


(***************************************************************************)
(* Data points.  value is the matched string or "No data" for a manual     *)
(* click (kind "str") and a float for an auto-extracted point.             *)
(***************************************************************************)
NoData == <<"N", "o", " ", "d", "a", "t", "a">>

StrValue(txt) == [kind |-> "str", txt |-> txt, num |-> NormFloat(FALSE, 0, 0)]

FloatValue(f) == [kind |-> "float", txt |-> << >>, num |-> f]

\* str(data_point['value'])
ValueStr(v) == IF v.kind = "str" THEN v.txt ELSE FloatStr(v.num)

DataPoint(x10, y10, value, source, index) ==
    [pdf_x |-> x10, pdf_y |-> y10, value |-> value, source |-> source,
     image_index |-> index]

(***************************************************************************)
(* extract_data_at_point: the search square and the scan of the clipped    *)
(* text.  The break leaves the span loop only: each later line that holds  *)
(* a number overwrites extracted_value.  << >> stands for None.            *)
(***************************************************************************)
search_radius == 20

SearchRect(pdf_point) ==
    Rect(pdf_point[1] - search_radius, pdf_point[2] - search_radius,
         pdf_point[1] + search_radius, pdf_point[2] + search_radius)

\* The span loop of one line: numbers[0] of the first span with a match.
RECURSIVE LineValue(_)
LineValue(spans) ==
    IF spans = << >> THEN << >>
    ELSE LET numbers == FindAll(Strip(Head(spans).text))
         IN  IF numbers # << >> THEN numbers[1] ELSE LineValue(Tail(spans))

RECURSIVE LinesValue(_, _)
LinesValue(lines, extracted_value) ==
    IF lines = << >> THEN extracted_value
    ELSE LET v == LineValue(Head(lines))
         IN  LinesValue(Tail(lines), IF v # << >> THEN v ELSE extracted_value)

RECURSIVE BlocksValue(_, _)
BlocksValue(blocks, extracted_value) ==
    IF blocks = << >> THEN extracted_value
    ELSE BlocksValue(Tail(blocks),
                     IF Head(blocks).has_lines
                     THEN LinesValue(Head(blocks).lines, extracted_value)
                     ELSE extracted_value)

\* The data point a right-click at pdf_point on page records.
ManualPoint(page, pdf_point, current_index) ==
    LET text_instances  == get_text(page, SearchRect(pdf_point))
        extracted_value == BlocksValue(text_instances, << >>)
    IN  DataPoint(10 * pdf_point[1], 10 * pdf_point[2],
                  StrValue(IF extracted_value # << >> THEN extracted_value ELSE NoData),
                  "Manual click", current_index)

(***************************************************************************)
(* auto_extract_data: one data point per number of every span, at the      *)
(* centre of the span's bounding box.                                      *)
(***************************************************************************)
RECURSIVE NumberPoints(_, _, _)
NumberPoints(numbers, bbox, current_index) ==
    IF numbers = << >> THEN << >>
    ELSE <<DataPoint(5 * (bbox.x0 + bbox.x1), 5 * (bbox.y0 + bbox.y1),
                     FloatValue(ParseFloat(Head(numbers))),
                     "Auto-extracted", current_index)>>
           \o NumberPoints(Tail(numbers), bbox, current_index)

SpanPoints(span, current_index) ==
    NumberPoints(FindAll(Strip(span.text)), span.bbox, current_index)

RECURSIVE SpansPoints(_, _)
SpansPoints(spans, current_index) ==
    IF spans = << >> THEN << >>
    ELSE SpanPoints(Head(spans), current_index)
           \o SpansPoints(Tail(spans), current_index)

RECURSIVE LinesPoints(_, _)
LinesPoints(lines, current_index) ==
    IF lines = << >> THEN << >>
    ELSE SpansPoints(Head(lines), current_index)
           \o LinesPoints(Tail(lines), current_index)

RECURSIVE BlocksPoints(_, _)
BlocksPoints(blocks, current_index) ==
    IF blocks = << >> THEN << >>
    ELSE (IF Head(blocks).has_lines
          THEN LinesPoints(Head(blocks).lines, current_index) ELSE << >>)
           \o BlocksPoints(Tail(blocks), current_index)

\* The data points a scan of page within image_rect appends, in order.
ScanPoints(page, image_rect, current_index) ==
    BlocksPoints(get_text(page, image_rect), current_index)

\* The raw text shown in text_display: the span texts of each line joined.
RECURSIVE LineText(_)
LineText(spans) ==
    IF spans = << >> THEN << >> ELSE Head(spans).text \o LineText(Tail(spans))

RECURSIVE AllText(_)
AllText(blocks) ==
    IF blocks = << >> THEN << >>
    ELSE (IF Head(blocks).has_lines
          THEN [l \in 1 .. Len(Head(blocks).lines) |-> LineText(Head(blocks).lines[l])]
          ELSE << >>)
           \o AllText(Tail(blocks))


(***************************************************************************)
(* load_pdf's loop over pages and images: the pixmaps and the image_info   *)
(* records it appends.  image_index is the image's index on its page       *)
(* (enumerate counts the images skipped as null too).                      *)
(***************************************************************************)
Pixmap(d, page_number, img_index, w, h) ==
    [doc |-> d, page |-> page_number, img |-> img_index, w |-> w, h |-> h,
     vlines |-> << >>, hlines |-> << >>, markers |-> << >>]

ImageInfo(d, page_number, img_index) ==
    LET page == Documents[d][page_number + 1]
        img  == page.images[img_index + 1]
    IN  [page_number     |-> page_number,
         image_index     |-> img_index,
         page_rect       |-> page.rect,
         image_rect      |-> IF img.rects # << >> THEN img.rects[1] ELSE page.rect,
         original_pixmap |-> Pixmap(d, page_number, img_index, img.w, img.h),
         page            |-> Page(d, page_number)]

RECURSIVE PageInfos(_, _, _)
PageInfos(d, page_number, img_index) ==
    IF img_index >= Len(Documents[d][page_number + 1].images) THEN << >>
    ELSE (IF Documents[d][page_number + 1].images[img_index + 1].null THEN << >>
          ELSE <<ImageInfo(d, page_number, img_index)>>)
           \o PageInfos(d, page_number, img_index + 1)

RECURSIVE DocInfos(_, _)
DocInfos(d, page_number) ==
    IF page_number >= Len(Documents[d]) THEN << >>
    ELSE PageInfos(d, page_number, 0) \o DocInfos(d, page_number + 1)

\* The combo box entries "Page p - Image i".
ComboItems(infos) ==
    [k \in 1 .. Len(infos) |-> <<infos[k].page_number + 1, infos[k].image_index + 1>>]

(***************************************************************************)
(* create_grid_overlay.  A grid line is its pixel position and its label,  *)
(* a marker the data point it is drawn for (its row in extracted_data),    *)
(* the circle's centre and the value label.                                *)
(***************************************************************************)
\* A variant of the loop over vertical lines that stops before the right
\* edge (while pdf_x < img_rect.x1).
RECURSIVE VLinesStrict(_, _, _, _)
VLinesStrict(pdf_x, img_rect, pixmap_width, grid_size) ==
    IF pdf_x >= img_rect.x1 THEN << >>
    ELSE LET pixel_x == PdfToPixel(10 * (pdf_x - img_rect.x0), pixmap_width,
                                   RectWidth(img_rect))
         IN  (IF 0 <= pixel_x /\ pixel_x <= pixmap_width
              THEN <<[pos |-> pixel_x, label |-> pdf_x]>> ELSE << >>)
               \o VLinesStrict(pdf_x + grid_size, img_rect, pixmap_width, grid_size)

RECURSIVE VLines(_, _, _, _)
VLines(pdf_x, img_rect, pixmap_width, grid_size) ==
    IF pdf_x > img_rect.x1 THEN << >>
    ELSE LET pixel_x == PdfToPixel(10 * (pdf_x - img_rect.x0), pixmap_width,
                                   RectWidth(img_rect))
         IN  (IF 0 <= pixel_x /\ pixel_x <= pixmap_width
              THEN <<[pos |-> pixel_x, label |-> pdf_x]>> ELSE << >>)
               \o VLines(pdf_x + grid_size, img_rect, pixmap_width, grid_size)

\* A variant of the loop over horizontal lines that labels a line with the
\* loop's own pdf_y.
RECURSIVE HLinesUnflipped(_, _, _, _)
HLinesUnflipped(pdf_y, img_rect, pixmap_height, grid_size) ==
    IF pdf_y > img_rect.y1 THEN << >>
    ELSE LET pixel_y == PdfToPixel(10 * (pdf_y - img_rect.y0), pixmap_height,
                                   RectHeight(img_rect))
         IN  (IF 0 <= pixel_y /\ pixel_y <= pixmap_height
              THEN <<[pos |-> pixel_y, label |-> pdf_y]>>
              ELSE << >>)
               \o HLinesUnflipped(pdf_y + grid_size, img_rect, pixmap_height,
                                  grid_size)

RECURSIVE HLines(_, _, _, _)
HLines(pdf_y, img_rect, pixmap_height, grid_size) ==
    IF pdf_y > img_rect.y1 THEN << >>
    ELSE LET pixel_y == PdfToPixel(10 * (pdf_y - img_rect.y0), pixmap_height,
                                   RectHeight(img_rect))
         IN  (IF 0 <= pixel_y /\ pixel_y <= pixmap_height
              THEN <<[pos |-> pixel_y,
                      label |-> img_rect.y1 - (pdf_y - img_rect.y0)]>>
              ELSE << >>)
               \o HLines(pdf_y + grid_size, img_rect, pixmap_height, grid_size)

\* A variant of the marker position that measures y from the rectangle's y0
\* (no flip of the axis).
MarkerPixelUnflipped(pdf_x, pdf_y, img_rect, w, h) ==
    <<PdfToPixel(pdf_x - 10 * img_rect.x0, w, RectWidth(img_rect)),
      PdfToPixel(pdf_y - 10 * img_rect.y0, h, RectHeight(img_rect))>>

\* Where a data point is marked on a pixmap of w x h pixels placed on
\* img_rect (the data point's coordinates are in tenths).
MarkerPixel(pdf_x, pdf_y, img_rect, w, h) ==
    <<PdfToPixel(pdf_x - 10 * img_rect.x0, w, RectWidth(img_rect)),
      PdfToPixel(10 * img_rect.y1 - pdf_y, h, RectHeight(img_rect))>>

\* The test that decides whether a data point is highlighted on an image.
MarkerShown(data_point, image_info) ==
    data_point.image_index = image_info.image_index

RECURSIVE Markers(_, _, _, _)
Markers(data, row, pixmap, image_info) ==
    IF row > Len(data) THEN << >>
    ELSE (IF MarkerShown(data[row], image_info)
          THEN <<[dp   |-> row,
                  at   |-> MarkerPixel(data[row].pdf_x, data[row].pdf_y,
                                       image_info.image_rect, pixmap.w, pixmap.h),
                  text |-> ValueStr(data[row].value)]>>
          ELSE << >>)
           \o Markers(data, row + 1, pixmap, image_info)

\* A variant of create_grid_overlay that highlights the data points whether
\* or not the grid is enabled.
create_grid_overlay_marking(pixmap, image_info, checked, grid_size, data) ==
    IF ~checked
    THEN [pixmap EXCEPT !.markers = @ \o Markers(data, 1, pixmap, image_info)]
    ELSE [pixmap EXCEPT
            !.vlines  = @ \o VLines(image_info.image_rect.x0, image_info.image_rect,
                                    pixmap.w, grid_size),
            !.hlines  = @ \o HLines(image_info.image_rect.y0, image_info.image_rect,
                                    pixmap.h, grid_size),
            !.markers = @ \o Markers(data, 1, pixmap, image_info)]

\* The pixmap create_grid_overlay returns (grid_size > 0).
create_grid_overlay(pixmap, image_info, checked, grid_size, data) ==
    IF ~checked THEN pixmap
    ELSE [pixmap EXCEPT
            !.vlines  = @ \o VLines(image_info.image_rect.x0, image_info.image_rect,
                                    pixmap.w, grid_size),
            !.hlines  = @ \o HLines(image_info.image_rect.y0, image_info.image_rect,
                                    pixmap.h, grid_size),
            !.markers = @ \o Markers(data, 1, pixmap, image_info)]

\* update_data_table: one row of four cells per data point.
TableRows(data) ==
    [r \in 1 .. Len(data) |->
       <<FormatF1(data[r].pdf_x), FormatF1(data[r].pdf_y),
         ValueStr(data[r].value), data[r].source>>]


(***************************************************************************)
(* State.  InteractiveImageLabel: original_pixmap, current_pixmap (its     *)
(* size), image_info, scale_factor, pan_offset, last_pan_point, dragging.  *)
(* PDFImageExtractor: the rest.  comboBox is its items and currentIndex    *)
(* (-1 when empty).  Two variables record what the last handler did: err   *)
(* the exception it raised ("none" if it returned), written the file it    *)
(* wrote (None if it wrote none).  probe holds the last image pixel sent    *)
(* through the two coordinate conversions on their own, with the results.  *)
(***************************************************************************)
VARIABLES original_pixmap, current_pixmap, image_info, scale_factor,
          pan_offset, last_pan_point, dragging,
          doc, image_pixmaps, image_data, extracted_data, current_page,
          comboBox, grid_checkbox, grid_size_spinbox, zoom_slider,
          saveButton, extractButton, exportButton, data_table, text_display,
          written, err, probe,
          size, visible_pixmap

\* The label: size is the widget's size; visible_pixmap is the size of the
\* pixmap the label shows, the one update_display painted last (no width
\* before the first).
viewVars == <<original_pixmap, current_pixmap, image_info, scale_factor, pan_offset,
              visible_pixmap>>

dragVars == <<last_pan_point, dragging>>

sessionVars == <<doc, image_pixmaps, image_data, comboBox>>

gridVars == <<grid_checkbox, grid_size_spinbox>>

buttonVars == <<saveButton, extractButton, exportButton>>

tableVars == <<data_table, text_display>>

(***************************************************************************)
(* scripts/shapefile_filters_by_attribute_values.py: the dialog            *)
(* FilterShapefileByAttributeDialog over the vector layers of the QGIS     *)
(* project.  The dialog is not modal, so between its events the user can   *)
(* select features on the map and edit the layers.                         *)
(*   selection, features, fields: per layer, the selected feature ids, the *)
(*     feature ids and the fields the layer has now.                       *)
(*   layer_combo: the layer that is current in the layer combo box.        *)
(*   filter_field_combo: the field names listed after "(No Filter)" and    *)
(*     the current index (0 is "(No Filter)").                             *)
(*   filter_value_list: its texts, the indices selected, and enabled.      *)
(*   returned: what the run_export that just returned did (None after any  *)
(*     other step).                                                        *)
(***************************************************************************)
VARIABLES selection, features, fields, layer_combo, filter_field_combo,
          filter_value_list, save_path_input, add_to_map, returned

dialogVars == <<selection, features, fields, layer_combo, filter_field_combo,
                filter_value_list, save_path_input, add_to_map, returned>>

\* The project: layer 1 with a string field and an integer field and two
\* features, layer 2 with a string field and one feature.
LayerIds == {1, 2}

LayerFields ==
    [l \in LayerIds |->
       IF l = 1 THEN <<[name |-> "name", type |-> 10], [name |-> "pop", type |-> 2]>>
       ELSE <<[name |-> "kind", type |-> 10]>>]

LayerFeatures == [l \in LayerIds |-> IF l = 1 THEN {1, 2} ELSE {3}]

Attribute(fid, field_name) ==
    CASE field_name = "name" -> IF fid = 1 THEN <<"a">> ELSE <<"b">>
      [] field_name = "pop"  -> 7
      [] field_name = "kind" -> <<"a">>

\* field_obj.type() in [2, 4, 6]: int, long, double.
NumericTypes == {2, 4, 6}

\* str(value) of an attribute value.
ValueText(value, type) == IF type \in NumericTypes THEN NatStr(value) ELSE value

\* layer.fields().indexFromName(name): the index, -1 when there is none.
IndexFromName(layer_fields, field_name) ==
    IF \E i \in 1 .. Len(layer_fields) : layer_fields[i].name = field_name
    THEN (CHOOSE i \in 1 .. Len(layer_fields) : layer_fields[i].name = field_name) - 1
    ELSE -1

\* The texts of the project's attribute values in the order of sorted(key=str).
SortedTexts == <<<<"7">>, <<"a">>, <<"b">>>>

\* sorted(layer.uniqueValues(field_idx)) as texts, for the features given.
UniqueValueTexts(fids, field) ==
    LET texts == {ValueText(Attribute(f, field.name), field.type) : f \in fids}
        Listed(t) == t \in texts
    IN  SelectSeq(SortedTexts, Listed)

\* Whether a feature satisfies "field" = value, where the value's text is
\* written bare for a numeric field and quoted for any other.
Matches(fid, field, text) ==
    IF field.type \in NumericTypes
    THEN /\ text # << >>
         /\ \A i \in 1 .. Len(text) : IsDigit(text[i])
         /\ DigitsValue(text) = Attribute(fid, field.name)
    ELSE text = Attribute(fid, field.name)

\* str.lower() on the characters of the paths entered.
Lower(c) ==
    CASE c = "S" -> "s" [] c = "H" -> "h" [] c = "P" -> "p" [] OTHER -> c

ShpSuffix == <<".", "s", "h", "p">>

\* path.lower().endswith(".shp")
EndsWithShp(path) ==
    /\ Len(path) >= Len(ShpSuffix)
    /\ \A i \in 1 .. Len(ShpSuffix) :
         Lower(path[Len(path) - Len(ShpSuffix) + i]) = ShpSuffix[i]

\* The dialog after __init__: refresh_layer_list and update_fields have run,
\* the signals of the field combo box have disabled the value list.
InitDialog ==
    /\ selection = [l \in LayerIds |-> {}]
    /\ features = LayerFeatures
    /\ fields = LayerFields
    /\ layer_combo = 1
    /\ filter_field_combo =
           [items |-> [i \in 1 .. Len(LayerFields[1]) |-> LayerFields[1][i].name],
            currentIndex |-> 0]
    /\ filter_value_list = [items |-> << >>, selected |-> {}, enabled |-> FALSE]
    /\ save_path_input = << >>
    /\ add_to_map = TRUE
    /\ returned = None

vars == <<viewVars, dragVars, sessionVars, gridVars, buttonVars, tableVars,
          extracted_data, current_page, zoom_slider, written, err, probe, size,
          dialogVars>>

(***************************************************************************)
(* Bounds of the model and the inputs the user can give.                   *)
(***************************************************************************)
\* Explorations of the same handlers under different bounds and inputs.
\* Spec follows the data: up to MaxData data points, the view changed by the
\* slider only.  SpecView follows the view: wheel zoom to fractions with
\* terms up to MaxScaleTerm, pan offsets up to MaxPan per axis, up to
\* MaxDataView data points, on the document that has images.  SpecGrid
\* follows the grid settings.
MaxData == 3

MaxDataView == 1

MaxScaleTerm == 5

MaxPan == 40

\* Widget positions of mouse events: where a button is pressed, where the
\* mouse is moved to.
PressPts == {<<200, 200>>}

MovePts == {<<240, 160>>}

ClickPts == {<<240, 160>>}

\* Values asked of the zoom slider and of the grid size spin box.
ZoomRequests == {5, 100, 600}

GridRequests == {-10, 0, 50, 300}

SliderMin == 10

SliderMax == 500

SpinMin == 10

SpinMax == 200

\* Variants that pass the value through unbounded.
SpinBoundRaw(v) == v

ClampScaleRaw(sf) == sf

\* QAbstractSlider.setValue / QSpinBox.setValue: the value bounded by the
\* range given to setRange.
SliderBound(v) == Max2(SliderMin, Min2(SliderMax, v))

SpinBound(v) == Max2(SpinMin, Min2(SpinMax, v))

InScaleRange(sf) == ~FracLess(sf, <<1, 10>>) /\ ~FracLess(<<5, 1>>, sf)

\* wheelEvent's max(0.1, min(5.0, scale_factor)).
ClampScale(sf) == FracMax(<<1, 10>>, FracMin(<<5, 1>>, sf))

Init ==
    /\ original_pixmap = None
    /\ current_pixmap = <<0, 0>>
    /\ image_info = None
    /\ scale_factor = <<1, 1>>
    /\ pan_offset = <<0, 0>>
    /\ last_pan_point = <<0, 0>>
    /\ dragging = FALSE
    /\ doc = NoDoc
    /\ image_pixmaps = << >>
    /\ image_data = << >>
    /\ extracted_data = << >>
    /\ current_page = None
    /\ comboBox = [items |-> << >>, currentIndex |-> -1]
    /\ grid_checkbox = TRUE
    /\ grid_size_spinbox = 50
    /\ zoom_slider = 100
    /\ saveButton = FALSE
    /\ extractButton = FALSE
    /\ exportButton = FALSE
    /\ data_table = << >>
    /\ text_display = << >>
    /\ written = None
    /\ err = "none"
    /\ probe = None
    /\ size = <<WidgetW, WidgetH>>
    /\ visible_pixmap = <<0, 0>>
    /\ InitDialog

\* The application still takes events (a handler that never returns ends it).
Running == err # "hang"

\* A variant of set_image that leaves the view as the previous image had it.
set_image_keep_view(pixmap, info) ==
    /\ original_pixmap' = pixmap
    /\ image_info' = info
    /\ UNCHANGED <<scale_factor, pan_offset>>
    /\ current_pixmap' = ScaledSize(pixmap.w, pixmap.h, scale_factor)
    /\ visible_pixmap' = size

\* InteractiveImageLabel.set_image, the label's update_display included.
set_image(pixmap, info) ==
    /\ original_pixmap' = pixmap
    /\ image_info' = info
    /\ scale_factor' = <<1, 1>>
    /\ pan_offset' = <<0, 0>>
    /\ current_pixmap' = ScaledSize(pixmap.w, pixmap.h, <<1, 1>>)
    /\ visible_pixmap' = size

(***************************************************************************)
(* display_selected_image(index) with the lists, the grid settings and the *)
(* data points as they are when it is called; set_image and the label's    *)
(* update_display are part of it.  With a grid step that is not positive   *)
(* the line loops of create_grid_overlay never end.                        *)
(***************************************************************************)
display_selected_image(index, pixmaps, infos, checked, grid_size, data) ==
    IF 0 <= index /\ index < Len(pixmaps)
    THEN IF checked /\ grid_size <= 0
         THEN /\ err' = "hang"
              /\ current_page' = infos[index + 1].page
              /\ UNCHANGED <<viewVars>>
         ELSE LET info == infos[index + 1]
                  pixmap_with_grid ==
                      create_grid_overlay(pixmaps[index + 1], info, checked,
                                          grid_size, data)
              IN  /\ current_page' = info.page
                  /\ set_image(pixmap_with_grid, info)
                  /\ err' = "none"
    ELSE /\ err' = "none"
         /\ UNCHANGED <<viewVars, current_page>>

\* PDFImageExtractor.update_display
update_display(checked, grid_size, data) ==
    IF comboBox.currentIndex >= 0
    THEN display_selected_image(comboBox.currentIndex, image_pixmaps, image_data,
                                checked, grid_size, data)
    ELSE /\ err' = "none"
         /\ UNCHANGED <<viewVars, current_page>>

(***************************************************************************)
(* load_pdf.  choice: 0 the dialog is cancelled, d a document is opened.   *)
(* comboBox.clear() and the first addItem emit currentIndexChanged; the    *)
(* display they trigger is repeated by the final display_selected_image(0) *)
(* on the same image, so the handler's effect is that of the final call.   *)
(***************************************************************************)
\* What a display handler that a signal of the combo box starts inside
\* load_pdf is given and finds: its index and the two lists as they are.
Handler(index, st) ==
    [index |-> index, image_pixmaps |-> st.image_pixmaps, image_data |-> st.image_data]

\* comboBox.clear(): currentIndexChanged(-1) when an entry was current.
Clear(st) ==
    [st EXCEPT !.comboBox = [items |-> << >>, currentIndex |-> -1],
               !.seen = IF st.comboBox.currentIndex # -1
                        THEN Append(@, Handler(-1, st)) ELSE @]

\* comboBox.addItem(item): the first entry becomes the current one,
\* currentIndexChanged(0).
AddItem(st, item) ==
    IF st.comboBox.items = << >>
    THEN [st EXCEPT !.comboBox = [items |-> <<item>>, currentIndex |-> 0],
                    !.seen = Append(@, Handler(0, [st EXCEPT !.comboBox =
                                          [items |-> <<item>>, currentIndex |-> 0]]))]
    ELSE [st EXCEPT !.comboBox.items = Append(@, item)]

\* A variant of the loop body that adds the combo box entry before the
\* image's metadata is stored.
LoadImageItemFirst(st, info) ==
    LET with_pixmap == [st EXCEPT !.image_pixmaps = Append(@, info.original_pixmap)]
        with_item   == AddItem(with_pixmap, ComboItems(<<info>>)[1])
    IN  [with_item EXCEPT !.image_data = Append(@, info)]

\* The body of load_pdf's loop for an image that is not null: the pixmap is
\* appended, then its metadata, then the combo box entry is added.
LoadImage(st, info) ==
    LET with_pixmap == [st EXCEPT !.image_pixmaps = Append(@, info.original_pixmap)]
        with_info   == [with_pixmap EXCEPT !.image_data = Append(@, info)]
    IN  AddItem(with_info, ComboItems(<<info>>)[1])

RECURSIVE LoadImages(_, _, _)
LoadImages(st, infos, k) ==
    IF k > Len(infos) THEN st
    ELSE LoadImages(LoadImage(st, infos[k]), infos, k + 1)

\* traced: the handlers that ran inside the load are kept in probe.
load_pdf_with(choice, traced) ==
    /\ Running
    /\ UNCHANGED <<size, dialogVars>>
    /\ written' = None
    /\ IF choice = 0
       THEN /\ err' = "none"
            /\ UNCHANGED <<viewVars, dragVars, sessionVars, gridVars, buttonVars,
                           tableVars, extracted_data, current_page,
                           zoom_slider, probe>>
       ELSE LET cleared == Clear([image_pixmaps |-> << >>, image_data |-> << >>,
                                   comboBox |-> comboBox, seen |-> << >>])
                loaded  == LoadImages(cleared, DocInfos(choice, 0), 1)
                infos   == loaded.image_data
                pixmaps == loaded.image_pixmaps
            IN  /\ doc' = choice
                /\ image_pixmaps' = pixmaps
                /\ image_data' = infos
                /\ extracted_data' = << >>
                /\ comboBox' = loaded.comboBox
                /\ probe' = IF traced THEN [seen |-> loaded.seen] ELSE probe
                /\ data_table' = << >>
                /\ text_display' = << >>
                /\ IF pixmaps # << >>
                   THEN /\ saveButton' = TRUE
                        /\ extractButton' = TRUE
                        /\ display_selected_image(0, pixmaps, infos, grid_checkbox,
                                                  grid_size_spinbox, << >>)
                   ELSE /\ err' = "none"
                        /\ UNCHANGED <<viewVars, current_page, saveButton,
                                       extractButton>>
                /\ UNCHANGED <<dragVars, gridVars, exportButton, zoom_slider>>

load_pdf(choice) == load_pdf_with(choice, FALSE)

\* The user picks another entry of the combo box: currentIndexChanged(index).
select_image(index) ==
    /\ Running
    /\ UNCHANGED <<probe, size, dialogVars>>
    /\ 0 <= index /\ index < Len(comboBox.items)
    /\ index # comboBox.currentIndex
    /\ written' = None
    /\ comboBox' = [comboBox EXCEPT !.currentIndex = index]
    /\ display_selected_image(index, image_pixmaps, image_data, grid_checkbox,
                              grid_size_spinbox, extracted_data)
    /\ UNCHANGED <<dragVars, doc, image_pixmaps, image_data, gridVars, buttonVars,
                   tableVars, extracted_data, zoom_slider>>

\* InteractiveImageLabel.update_display: the size of the rescaled pixmap.
Rescaled(sf) ==
    IF original_pixmap = None THEN current_pixmap
    ELSE ScaledSize(original_pixmap.w, original_pixmap.h, sf)

\* InteractiveImageLabel.update_display: the size of the pixmap it paints
\* and hands to the label.
Painted == IF original_pixmap = None THEN visible_pixmap ELSE size

wheelEvent(up, scaleCap) ==
    /\ Running
    /\ UNCHANGED <<probe, size, dialogVars>>
    /\ LET raw == FracMul(scale_factor, IF up THEN <<6, 5>> ELSE <<4, 5>>)
           sf  == ClampScale(raw)
       IN  /\ InScaleRange(raw) => (raw[1] <= scaleCap /\ raw[2] <= scaleCap)
           /\ scale_factor' = sf
           /\ current_pixmap' = Rescaled(sf)
           /\ visible_pixmap' = Painted
    /\ written' = None
    /\ err' = "none"
    /\ UNCHANGED <<original_pixmap, image_info, pan_offset, dragVars, sessionVars,
                   gridVars, buttonVars, tableVars, extracted_data, current_page,
                   zoom_slider>>

\* The zoom slider is asked for value v; valueChanged (zoom_changed) is
\* emitted when the bounded value differs from the current one.
zoom_changed(v) ==
    /\ Running
    /\ UNCHANGED <<probe, size, dialogVars>>
    /\ written' = None
    /\ err' = "none"
    /\ LET value == SliderBound(v)
       IN  IF value = zoom_slider
           THEN UNCHANGED <<zoom_slider, scale_factor, current_pixmap, visible_pixmap>>
           ELSE /\ zoom_slider' = value
                /\ scale_factor' = Frac(value, 100)
                /\ current_pixmap' = Rescaled(Frac(value, 100))
                /\ visible_pixmap' = Painted
    /\ UNCHANGED <<original_pixmap, image_info, pan_offset, dragVars, sessionVars,
                   gridVars, buttonVars, tableVars, extracted_data, current_page>>


(***************************************************************************)
(* Mouse events on the image label.                                        *)
(***************************************************************************)
\* image_to_pdf_coords as the label calls it.
image_to_pdf_coords(image_pos) ==
    IF image_info = None \/ original_pixmap = None THEN <<0, 0>>
    ELSE ImageToPdf(image_pos, image_info.image_rect,
                    original_pixmap.w, original_pixmap.h)

\* A variant of the append: at the front of the list.
AppendPointFront(data, data_point) == <<data_point>> \o data

\* self.extracted_data.append(data_point)
AppendPoint(data, data_point) == Append(data, data_point)

\* current_page belongs to a document that self.doc no longer refers to:
\* whether its text can still be read depends on the PyMuPDF build (the page
\* keeps its document alive, or is orphaned and get_text raises).
Stale == current_page # None /\ current_page.doc # doc

\* extract_data_at_point, from the append on.
RecordPoint(data_point) ==
    LET data == AppendPoint(extracted_data, data_point)
    IN  /\ extracted_data' = data
        /\ data_table' = TableRows(data)
        /\ update_display(grid_checkbox, grid_size_spinbox, data)

\* mousePressEvent, right button: pointClicked -> extract_data_at_point.
mousePressRight(pos, dataCap) ==
    /\ Running
    /\ UNCHANGED <<probe, size, dialogVars>>
    /\ Len(extracted_data) < dataCap
    /\ written' = None
    /\ LET image_point == widget_to_image_coords(pos, original_pixmap # None, size,
                                                 current_pixmap, pan_offset,
                                                 scale_factor)
           pdf_point   == image_to_pdf_coords(image_point)
       IN  IF current_page = None
           THEN /\ err' = "none"
                /\ UNCHANGED <<viewVars, extracted_data, data_table, current_page>>
           ELSE \/ /\ Stale
                   /\ err' = "orphaned object"
                   /\ UNCHANGED <<viewVars, extracted_data, data_table,
                                  current_page>>
                \/ RecordPoint(ManualPoint(current_page, pdf_point,
                                           comboBox.currentIndex))
    /\ UNCHANGED <<dragVars, sessionVars, gridVars, buttonVars, text_display,
                   zoom_slider>>

\* mousePressEvent, left button.
mousePressLeft(pos) ==
    /\ Running
    /\ UNCHANGED <<probe, size, dialogVars>>
    /\ written' = None
    /\ err' = "none"
    /\ last_pan_point' = pos
    /\ dragging' = TRUE
    /\ UNCHANGED <<viewVars, sessionVars, gridVars, buttonVars, tableVars,
                   extracted_data, current_page, zoom_slider>>

mouseMoveEvent(pos, panCap) ==
    /\ Running
    /\ UNCHANGED <<probe, size, dialogVars>>
    /\ written' = None
    /\ err' = "none"
    /\ IF dragging
       THEN LET pan == <<pan_offset[1] + pos[1] - last_pan_point[1],
                         pan_offset[2] + pos[2] - last_pan_point[2]>>
            IN  /\ Abs(pan[1]) <= panCap /\ Abs(pan[2]) <= panCap
                /\ pan_offset' = pan
                /\ last_pan_point' = pos
                /\ current_pixmap' = Rescaled(scale_factor)
                /\ visible_pixmap' = Painted
       ELSE UNCHANGED <<pan_offset, last_pan_point, current_pixmap, visible_pixmap>>
    /\ UNCHANGED <<original_pixmap, image_info, scale_factor, dragging, sessionVars,
                   gridVars, buttonVars, tableVars, extracted_data, current_page,
                   zoom_slider>>

mouseReleaseEvent(left) ==
    /\ Running
    /\ UNCHANGED <<probe, size, dialogVars>>
    /\ written' = None
    /\ err' = "none"
    /\ dragging' = IF left THEN FALSE ELSE dragging
    /\ UNCHANGED <<viewVars, last_pan_point, sessionVars, gridVars, buttonVars,
                   tableVars, extracted_data, current_page, zoom_slider>>

(***************************************************************************)
(* Grid settings: both signals are connected to update_display.            *)
(***************************************************************************)
grid_toggled ==
    /\ Running
    /\ UNCHANGED <<probe, size, dialogVars>>
    /\ written' = None
    /\ grid_checkbox' = ~grid_checkbox
    /\ update_display(~grid_checkbox, grid_size_spinbox, extracted_data)
    /\ UNCHANGED <<dragVars, sessionVars, grid_size_spinbox, buttonVars, tableVars,
                   extracted_data, zoom_slider>>

\* The spin box is asked for value v: it keeps a value of its range, the
\* bounded one (setValue, the arrows) or, for text typed out of range, the
\* bounded or the previous one; valueChanged is emitted on a change.
grid_size_changed(v) ==
    /\ Running
    /\ UNCHANGED <<probe, size, dialogVars>>
    /\ written' = None
    /\ \E value \in {SpinBound(v)} \cup (IF v = SpinBound(v) THEN {} ELSE {grid_size_spinbox}) :
         /\ grid_size_spinbox' = value
         /\ IF value = grid_size_spinbox
            THEN /\ err' = "none"
                 /\ UNCHANGED <<viewVars, current_page>>
            ELSE update_display(grid_checkbox, value, extracted_data)
    /\ UNCHANGED <<dragVars, sessionVars, grid_checkbox, buttonVars, tableVars,
                   extracted_data, zoom_slider>>

(***************************************************************************)
(* auto_extract_data (the button is clickable only when enabled).          *)
(***************************************************************************)
auto_extract_data(dataCap) ==
    /\ Running
    /\ UNCHANGED <<probe, size, dialogVars>>
    /\ extractButton
    /\ written' = None
    /\ IF current_page = None
       THEN /\ err' = "none"
            /\ UNCHANGED <<viewVars, extracted_data, tableVars, current_page, 
                           exportButton>>
       ELSE IF image_data = << >>
       THEN \* self.image_data[current_index] on an empty list
            /\ err' = "IndexError"
            /\ UNCHANGED <<viewVars, extracted_data, tableVars, current_page, 
                           exportButton>>
       ELSE LET current_index == comboBox.currentIndex
                info == image_data[IF current_index >= 0 THEN current_index + 1
                                   ELSE Len(image_data) + 1 + current_index]
                text_dict == get_text(current_page, info.image_rect)
                data == extracted_data \o BlocksPoints(text_dict, current_index)
            IN  /\ Len(data) <= dataCap
                /\ text_display' = AllText(text_dict)
                /\ extracted_data' = data
                /\ data_table' = TableRows(data)
                /\ update_display(grid_checkbox, grid_size_spinbox, data)
                /\ exportButton' = TRUE
    /\ UNCHANGED <<dragVars, sessionVars, gridVars, saveButton, extractButton,
                   zoom_slider>>

(***************************************************************************)
(* export_data_table.  path: FALSE the dialog is cancelled; opened: the    *)
(* file could be opened for writing.                                       *)
(***************************************************************************)
\* A variant of the export loop that writes the displayed image's points only.
ExportRowsDisplayed(data) ==
    LET shown == SelectSeq(data, LAMBDA data_point :
                               data_point.image_index = comboBox.currentIndex)
    IN  [r \in 1 .. Len(shown) |->
           <<FormatF1(shown[r].pdf_x), FormatF1(shown[r].pdf_y),
             ValueStr(shown[r].value), shown[r].source>>]

\* The lines written after the header: one per data point, in list order.
ExportRows(data) ==
    [r \in 1 .. Len(data) |->
       <<FormatF1(data[r].pdf_x), FormatF1(data[r].pdf_y),
         ValueStr(data[r].value), data[r].source>>]

ExportFile(data) ==
    [header |-> <<"PDF_X", "PDF_Y", "Value", "Source">>, rows |-> ExportRows(data)]

export_data_table(path, opened) ==
    /\ Running
    /\ UNCHANGED <<probe, size, dialogVars>>
    /\ exportButton
    /\ err' = "none"
    /\ IF extracted_data = << >> \/ ~path
       THEN /\ written' = None
       ELSE IF opened
       THEN /\ written' = ExportFile(extracted_data)
       ELSE /\ written' = None
    /\ UNCHANGED <<viewVars, dragVars, sessionVars, gridVars, buttonVars, tableVars,
                   extracted_data, current_page, zoom_slider>>

NextWith(docs, dataCap, scaleCap, panCap, zoomRequests, gridRequests) ==
    \/ \E choice \in {0} \cup docs : load_pdf(choice)
    \/ \E index \in 0 .. 2 : select_image(index)
    \/ \E up \in BOOLEAN : wheelEvent(up, scaleCap)
    \/ \E v \in zoomRequests : zoom_changed(v)
    \/ \E pos \in ClickPts : mousePressRight(pos, dataCap)
    \/ \E pos \in PressPts : mousePressLeft(pos)
    \/ \E pos \in MovePts : mouseMoveEvent(pos, panCap)
    \/ \E left \in BOOLEAN : mouseReleaseEvent(left)
    \/ grid_toggled
    \/ \E v \in gridRequests : grid_size_changed(v)
    \/ auto_extract_data(dataCap)
    \/ \E path \in BOOLEAN, opened \in BOOLEAN : export_data_table(path, opened)

Next == NextWith(DocIds, MaxData, 1, 0, {600}, {50})

Spec == Init /\ [][Next]_vars

NextView == NextWith({1}, MaxDataView, MaxScaleTerm, MaxPan, ZoomRequests, {50})

SpecView == Init /\ [][NextView]_vars

NextGrid == NextWith(DocIds, MaxDataView, 1, 0, {600}, GridRequests)

SpecGrid == Init /\ [][NextGrid]_vars

\* Loads whose re-entrant handlers are kept, between selections, clicks and
\* changes of the grid.
NextLoad ==
    \/ \E choice \in {0} \cup DocIds : load_pdf_with(choice, TRUE)
    \/ \E index \in 0 .. 2 : select_image(index)
    \/ \E pos \in ClickPts : mousePressRight(pos, MaxDataView)
    \/ \E v \in {600} : zoom_changed(v)
    \/ grid_toggled

SpecLoad == Init /\ [][NextLoad]_vars

(***************************************************************************)
(* The label in a window the user resizes.  InteractiveImageLabel has no   *)
(* resizeEvent of its own: QLabel keeps showing the pixmap it was given,   *)
(* at its default alignment (left, vertically centred), until the next     *)
(* update_display.                                                         *)
(***************************************************************************)
WidgetSizes == {<<WidgetW, WidgetH>>, <<500, 460>>}

\* The window or the splitter gives the label another size.
resizeEvent(s) ==
    /\ Running
    /\ UNCHANGED <<probe, dialogVars>>
    /\ s # size
    /\ size' = s
    /\ written' = None
    /\ err' = "none"
    /\ UNCHANGED <<viewVars, dragVars, sessionVars, gridVars, buttonVars, tableVars,
                   extracted_data, current_page, zoom_slider>>

\* Where the top-left corner of the image is on the screen, in widget
\* coordinates: update_display painted it at its draw_pos in visible_pixmap,
\* which the label shows left-aligned and vertically centred.
PaintedOrigin ==
    LET draw_pos == DrawPos(visible_pixmap, current_pixmap, pan_offset)
    IN  <<draw_pos[1], draw_pos[2] + TruncDiv(size[2] - visible_pixmap[2], 2)>>

\* widget_to_image_coords(widget_pos) as mousePressEvent calls it for a
\* right click, with its result and where the image was on the screen.
locate(widget_pos) ==
    /\ Running
    /\ original_pixmap # None
    /\ 0 <= widget_pos[1] /\ widget_pos[1] < size[1]
    /\ 0 <= widget_pos[2] /\ widget_pos[2] < size[2]
    /\ probe' = [widget_pos  |-> widget_pos,
                 painted_at  |-> PaintedOrigin,
                 image_point |-> widget_to_image_coords(widget_pos, TRUE, size,
                                                        current_pixmap, pan_offset,
                                                        scale_factor)]
    /\ written' = None
    /\ err' = "none"
    /\ UNCHANGED <<dialogVars, size, viewVars, dragVars, sessionVars, gridVars, buttonVars,
                   tableVars, extracted_data, current_page, zoom_slider>>

NextWidget ==
    \/ load_pdf(1)
    \/ \E index \in 0 .. 2 : select_image(index)
    \/ \E v \in {5, 600} : zoom_changed(v)
    \/ \E pos \in PressPts : mousePressLeft(pos)
    \/ \E pos \in MovePts : mouseMoveEvent(pos, MaxPan)
    \/ mouseReleaseEvent(TRUE)
    \/ \E s \in WidgetSizes : resizeEvent(s)
    \/ \E widget_pos \in {PaintedOrigin} \cup PressPts : locate(widget_pos)

SpecWidget == Init /\ [][NextWidget]_vars

(***************************************************************************)
(* The two coordinate conversions on their own: an image of w x h pixels   *)
(* placed on a rectangle of the page, and one pixel of it sent to document *)
(* space by image_to_pdf_coords and back by the marker mapping of          *)
(* create_grid_overlay, as a right-click and the redraw that follows do.   *)
(***************************************************************************)
MaxMapPixels == 5

MaxMapExtent == 2

MapOrigins == {-3, 0}

InitMap ==
    \E w \in 1 .. MaxMapPixels, h \in 1 .. MaxMapPixels,
       x0 \in MapOrigins, y0 \in MapOrigins,
       rw \in 1 .. MaxMapExtent, rh \in 1 .. MaxMapExtent :
      LET rect == Rect(x0, y0, x0 + rw, y0 + rh)
      IN  /\ original_pixmap = Pixmap(NoDoc, 0, 0, w, h)
          /\ current_pixmap = <<w, h>>
          /\ image_info = [page_number     |-> 0,
                           image_index     |-> 0,
                           page_rect       |-> rect,
                           image_rect      |-> rect,
                           original_pixmap |-> Pixmap(NoDoc, 0, 0, w, h),
                           page            |-> None]
          /\ scale_factor = <<1, 1>>
          /\ pan_offset = <<0, 0>>
          /\ last_pan_point = <<0, 0>>
          /\ dragging = FALSE
          /\ doc = NoDoc
          /\ image_pixmaps = << >>
          /\ image_data = << >>
          /\ extracted_data = << >>
          /\ current_page = None
          /\ comboBox = [items |-> << >>, currentIndex |-> -1]
          /\ grid_checkbox = TRUE
          /\ grid_size_spinbox = 50
          /\ zoom_slider = 100
          /\ saveButton = FALSE
          /\ extractButton = FALSE
          /\ exportButton = FALSE
          /\ data_table = << >>
          /\ text_display = << >>
          /\ written = None
          /\ err = "none"
          /\ probe = None
          /\ size = <<WidgetW, WidgetH>>
          /\ visible_pixmap = <<WidgetW, WidgetH>>
          /\ InitDialog

\* image_pos -> pdf_point -> the pixel the point is marked at.
round_trip(image_pos) ==
    /\ 0 <= image_pos[1] /\ image_pos[1] < original_pixmap.w
    /\ 0 <= image_pos[2] /\ image_pos[2] < original_pixmap.h
    /\ LET pdf_point == image_to_pdf_coords(image_pos)
       IN  probe' = [image_pos |-> image_pos,
                     pdf_point |-> pdf_point,
                     pixel     |-> MarkerPixel(10 * pdf_point[1], 10 * pdf_point[2],
                                               image_info.image_rect,
                                               original_pixmap.w, original_pixmap.h)]
    /\ UNCHANGED <<dialogVars, size, viewVars, dragVars, sessionVars, gridVars, buttonVars,
                   tableVars,
                   extracted_data, current_page, zoom_slider, written, err>>

NextMap ==
    \E x \in 0 .. MaxMapPixels - 1, y \in 0 .. MaxMapPixels - 1 : round_trip(<<x, y>>)

SpecMap == InitMap /\ [][NextMap]_vars

(***************************************************************************)
(* The overlay renderer and image_to_pdf_coords on their own: a pixmap of  *)
(* w x h pixels (0 x 0: a null pixmap) placed on a rectangle that may have *)
(* no width or no height, a grid setting, and two data points of the image *)
(* at the rectangle's top left and bottom right corners.                   *)
(***************************************************************************)
MaxOverlayPixels == 3

OverlaySizes ==
    {<<w, h>> : w \in (1 .. MaxOverlayPixels) \cup {50}, h \in (1 .. MaxOverlayPixels) \cup {50}}
      \cup {<<300, 300>>, <<0, 0>>}

OverlayExtents == {0, 20, 25}

OverlayRects ==
    {Rect(o[1], o[2], o[1] + rw, o[2] + rh) :
       o \in {<<0, 0>>, <<10, 20>>}, rw \in OverlayExtents, rh \in OverlayExtents}
      \cup {Rect(0, 0, 100, 200)}

OverlayGridSizes == {10, 50}

CornerPoints(rect) ==
    <<DataPoint(10 * rect.x0, 10 * rect.y1, StrValue(NoData), "Manual click", 0),
      DataPoint(10 * rect.x1, 10 * rect.y0, StrValue(NoData), "Manual click", 0)>>

InitOverlay ==
    \E pixels \in OverlaySizes, rect \in OverlayRects,
       grid_size \in OverlayGridSizes, checked \in BOOLEAN :
      /\ original_pixmap = Pixmap(NoDoc, 0, 0, pixels[1], pixels[2])
      /\ current_pixmap = pixels
      /\ image_info = [page_number     |-> 0,
                       image_index     |-> 0,
                       page_rect       |-> rect,
                       image_rect      |-> rect,
                       original_pixmap |-> Pixmap(NoDoc, 0, 0, pixels[1], pixels[2]),
                       page            |-> None]
      /\ scale_factor = <<1, 1>>
      /\ pan_offset = <<0, 0>>
      /\ last_pan_point = <<0, 0>>
      /\ dragging = FALSE
      /\ doc = NoDoc
      /\ image_pixmaps = << >>
      /\ image_data = << >>
      /\ extracted_data = CornerPoints(rect)
      /\ current_page = None
      /\ comboBox = [items |-> << >>, currentIndex |-> -1]
      /\ grid_checkbox = checked
      /\ grid_size_spinbox = grid_size
      /\ zoom_slider = 100
      /\ saveButton = FALSE
      /\ extractButton = FALSE
      /\ exportButton = FALSE
      /\ data_table = << >>
      /\ text_display = << >>
      /\ written = None
      /\ err = "none"
      /\ probe = None
      /\ size = <<WidgetW, WidgetH>>
      /\ visible_pixmap = <<WidgetW, WidgetH>>
      /\ InitDialog

\* create_grid_overlay(pixmap, image_info) with the settings and the data
\* points of the state.
render ==
    /\ probe' = [overlay |-> create_grid_overlay(original_pixmap, image_info,
                                                 grid_checkbox, grid_size_spinbox,
                                                 extracted_data)]
    /\ err' = "none"
    /\ UNCHANGED <<dialogVars, size, viewVars, dragVars, sessionVars, gridVars, buttonVars,
                   tableVars,
                   extracted_data, current_page, zoom_slider, written>>

\* image_to_pdf_coords(image_pos): the division by the pixmap's width or
\* height raises ZeroDivisionError for a null pixmap.
convert(image_pos) ==
    /\ IF original_pixmap.w = 0 \/ original_pixmap.h = 0
       THEN /\ err' = "ZeroDivisionError"
            /\ probe' = [image_pos |-> image_pos, raised |-> TRUE]
       ELSE /\ err' = "none"
            /\ probe' = [image_pos |-> image_pos, raised |-> FALSE,
                         pdf_point |-> image_to_pdf_coords(image_pos)]
    /\ UNCHANGED <<dialogVars, size, viewVars, dragVars, sessionVars, gridVars, buttonVars,
                   tableVars,
                   extracted_data, current_page, zoom_slider, written>>

NextOverlay ==
    \/ render
    \/ \E image_pos \in {<<0, 0>>,
                         <<Max2(original_pixmap.w - 1, 0), Max2(original_pixmap.h - 1, 0)>>} :
         convert(image_pos)

SpecOverlay == InitOverlay /\ [][NextOverlay]_vars

(***************************************************************************)
(* The events of FilterShapefileByAttributeDialog, and the user's work on  *)
(* the layers in QGIS while the dialog is open.                            *)
(***************************************************************************)
pdfVars == <<viewVars, dragVars, sessionVars, gridVars, buttonVars, tableVars,
             extracted_data, current_page, zoom_slider, written, err, probe, size>>

\* update_fields for the layer that is current: the field combo box is
\* refilled (its signals leave the value list empty and disabled).
update_fields(layer) ==
    /\ filter_field_combo' =
           [items |-> [i \in 1 .. Len(fields[layer]) |-> fields[layer][i].name],
            currentIndex |-> 0]
    /\ filter_value_list' = [items |-> << >>, selected |-> {}, enabled |-> FALSE]

\* The user picks another layer: currentIndexChanged -> update_fields.
layer_changed(layer) ==
    /\ layer # layer_combo
    /\ layer_combo' = layer
    /\ update_fields(layer)
    /\ returned' = None
    /\ UNCHANGED <<selection, features, fields, save_path_input, add_to_map, pdfVars>>

\* update_filter_values with entry index of the field combo box current.
update_filter_values(index) ==
    IF index = 0
    THEN [items |-> << >>, selected |-> {}, enabled |-> FALSE]
    ELSE LET layer_fields == fields[layer_combo]
             field_idx == IndexFromName(layer_fields, filter_field_combo.items[index])
         IN  [items    |-> IF field_idx = -1 THEN << >>
                           ELSE UniqueValueTexts(features[layer_combo],
                                                 layer_fields[field_idx + 1]),
              selected |-> {},
              enabled  |-> TRUE]

\* The user picks another entry of the field combo box.
field_changed(index) ==
    /\ index \in 0 .. Len(filter_field_combo.items)
    /\ index # filter_field_combo.currentIndex
    /\ filter_field_combo' = [filter_field_combo EXCEPT !.currentIndex = index]
    /\ filter_value_list' = update_filter_values(index)
    /\ returned' = None
    /\ UNCHANGED <<selection, features, fields, layer_combo, save_path_input,
                   add_to_map, pdfVars>>

\* A click on a row of the value list (MultiSelection: the row is toggled).
value_clicked(row) ==
    /\ filter_value_list.enabled
    /\ row \in 1 .. Len(filter_value_list.items)
    /\ filter_value_list' =
           [filter_value_list EXCEPT
              !.selected = IF row \in @ THEN @ \ {row} ELSE @ \cup {row}]
    /\ returned' = None
    /\ UNCHANGED <<selection, features, fields, layer_combo, filter_field_combo,
                   save_path_input, add_to_map, pdfVars>>

select_all_values ==
    /\ filter_value_list.enabled
    /\ filter_value_list' =
           [filter_value_list EXCEPT !.selected = 1 .. Len(filter_value_list.items)]
    /\ returned' = None
    /\ UNCHANGED <<selection, features, fields, layer_combo, filter_field_combo,
                   save_path_input, add_to_map, pdfVars>>

deselect_all_values ==
    /\ filter_value_list.enabled
    /\ filter_value_list' = [filter_value_list EXCEPT !.selected = {}]
    /\ returned' = None
    /\ UNCHANGED <<selection, features, fields, layer_combo, filter_field_combo,
                   save_path_input, add_to_map, pdfVars>>

\* select_output_path.  path: what the file dialog returns (empty when it is
\* cancelled); directory: "exists", or it is missing and makedirs has
\* "created" it or "failed".
select_output_path(path, directory) ==
    /\ save_path_input' =
           IF path = << >> \/ directory = "failed" THEN save_path_input
           ELSE IF EndsWithShp(path) THEN path
           ELSE path \o ShpSuffix
    /\ returned' = None
    /\ UNCHANGED <<selection, features, fields, layer_combo, filter_field_combo,
                   filter_value_list, add_to_map, pdfVars>>

\* The user edits the text of the path line.
save_path_edited(text) ==
    /\ text # save_path_input
    /\ save_path_input' = text
    /\ returned' = None
    /\ UNCHANGED <<selection, features, fields, layer_combo, filter_field_combo,
                   filter_value_list, add_to_map, pdfVars>>

add_to_map_toggled ==
    /\ add_to_map' = ~add_to_map
    /\ returned' = None
    /\ UNCHANGED <<selection, features, fields, layer_combo, filter_field_combo,
                   filter_value_list, save_path_input, pdfVars>>

\* In QGIS: the user selects features of a layer on the map.
select_on_map(layer, fids) ==
    /\ fids \subseteq features[layer]
    /\ fids # selection[layer]
    /\ selection' = [selection EXCEPT ![layer] = fids]
    /\ returned' = None
    /\ UNCHANGED <<features, fields, layer_combo, filter_field_combo,
                   filter_value_list, save_path_input, add_to_map, pdfVars>>

\* In QGIS: the user deletes a feature of a layer.
delete_feature(layer, fid) ==
    /\ fid \in features[layer]
    /\ features' = [features EXCEPT ![layer] = @ \ {fid}]
    /\ selection' = [selection EXCEPT ![layer] = @ \ {fid}]
    /\ returned' = None
    /\ UNCHANGED <<fields, layer_combo, filter_field_combo, filter_value_list,
                   save_path_input, add_to_map, pdfVars>>

\* In QGIS: the user deletes a field of a layer.
delete_field(layer, field_name) ==
    /\ IndexFromName(fields[layer], field_name) # -1
    /\ LET Other(field) == field.name # field_name
       IN  fields' = [fields EXCEPT ![layer] = SelectSeq(@, Other)]
    /\ returned' = None
    /\ UNCHANGED <<selection, features, layer_combo, filter_field_combo,
                   filter_value_list, save_path_input, add_to_map, pdfVars>>

(***************************************************************************)
(* run_export.  write: what writeAsVectorFormatV3 does: it returns NoError *)
(* or an error code, or the call itself raises (the method does not exist  *)
(* before QGIS 3.20).  TryBlock is the try statement with its except       *)
(* clause: the layer's selection it leaves, and what it reported.          *)
(***************************************************************************)
TryBlock(layer, write) ==
    LET output_path  == Strip(save_path_input)
        index        == filter_field_combo.currentIndex
        values       == {filter_value_list.items[i] : i \in filter_value_list.selected}
        apply_filter == index # 0 /\ values # {}
        field_idx    == IndexFromName(fields[layer], filter_field_combo.items[index])
        matched      == {f \in features[layer] :
                           \E v \in values : Matches(f, fields[layer][field_idx + 1], v)}
        Result(sel, outcome, count) ==
            [selection |-> sel, outcome |-> outcome, filtered |-> apply_filter,
             count |-> count]
    IN  IF output_path = << >>
        THEN Result(selection[layer], "No output path specified", 0)
        ELSE IF apply_filter /\ field_idx = -1
        THEN Result(selection[layer], "Field not found in layer", 0)
        ELSE IF apply_filter /\ matched = {}
        THEN Result({}, "No features match the selected filter values", 0)
        ELSE LET selected_count == IF apply_filter THEN Cardinality(matched)
                                   ELSE Cardinality(features[layer])
             IN  IF write = "raises"
                 THEN Result(IF apply_filter THEN matched ELSE selection[layer],
                             "writeAsVectorFormatV3 raised", selected_count)
                 ELSE IF write = "error"
                 THEN Result(IF apply_filter THEN {} ELSE selection[layer],
                             "Error writing shapefile", selected_count)
                 ELSE Result(IF apply_filter THEN {} ELSE selection[layer],
                             "Success", selected_count)

\* A variant of the finally clause that leaves the layer's selection alone.
FinallySkipped(layer_selection) == layer_selection

\* finally: if layer: layer.removeSelection().  The layer object of the combo
\* box is true as a condition; were an empty layer false, it would have no
\* feature to deselect.
FinallyClause(layer_selection) == {}

run_export(write) ==
    LET layer  == layer_combo
        result == TryBlock(layer, write)
    IN  /\ selection' = [selection EXCEPT ![layer] = FinallyClause(result.selection)]
        /\ returned' = [layer    |-> layer,
                        outcome  |-> result.outcome,
                        filtered |-> result.filtered,
                        count    |-> result.count,
                        before   |-> selection[layer],
                        added    |-> result.outcome = "Success" /\ add_to_map]
        /\ UNCHANGED <<features, fields, layer_combo, filter_field_combo,
                       filter_value_list, save_path_input, add_to_map, pdfVars>>

PathInputs == {<< >>, <<"o">>, <<"o", ".", "S", "H", "P">>}

NextExport ==
    \/ \E layer \in LayerIds : layer_changed(layer)
    \/ \E index \in 0 .. 2 : field_changed(index)
    \/ \E row \in 1 .. 2 : value_clicked(row)
    \/ select_all_values
    \/ deselect_all_values
    \/ \E path \in PathInputs, directory \in {"exists", "created", "failed"} :
         select_output_path(path, directory)
    \/ \E text \in {<< >>, <<" ">>} : save_path_edited(text)
    \/ add_to_map_toggled
    \/ \E layer \in LayerIds :
         \E fids \in SUBSET LayerFeatures[layer] : select_on_map(layer, fids)
    \/ \E fid \in LayerFeatures[1] : delete_feature(1, fid)
    \/ \E field_name \in {"name", "pop"} : delete_field(1, field_name)
    \/ \E write \in {"NoError", "error", "raises"} : run_export(write)

SpecExport == Init /\ [][NextExport]_vars

(***************************************************************************)
(* Properties.  Helpers first: the spans of a get_text result in the order *)
(* the text layer gives them, and what the specification expects of them.  *)
(***************************************************************************)
IsPrefix(s, t) == Len(s) <= Len(t) /\ \A i \in 1 .. Len(s) : t[i] = s[i]

RECURSIVE LinesSpans(_)
LinesSpans(lines) ==
    IF lines = << >> THEN << >> ELSE Head(lines) \o LinesSpans(Tail(lines))

RECURSIVE EncounterSpans(_)
EncounterSpans(blocks) ==
    IF blocks = << >> THEN << >>
    ELSE (IF Head(blocks).has_lines THEN LinesSpans(Head(blocks).lines) ELSE << >>)
           \o EncounterSpans(Tail(blocks))

HasNumber(span) == FindAll(Strip(span.text)) # << >>

\* The first numeric substring of the first span that has one, or << >>.
FirstNumeric(spans) ==
    LET hits == SelectSeq(spans, HasNumber)
    IN  IF hits = << >> THEN << >> ELSE FindAll(Strip(hits[1].text))[1]

\* The spans a point query at a data point's position looks at.
QuerySpans(page, data_point) ==
    EncounterSpans(get_text(page, SearchRect(<<data_point.pdf_x \div 10,
                                               data_point.pdf_y \div 10>>)))

RECURSIVE SumTo(_, _)
SumTo(counts, k) == IF k = 0 THEN 0 ELSE counts[k] + SumTo(counts, k - 1)

OwnerValid(data_point) ==
    0 <= data_point.image_index /\ data_point.image_index < Len(image_data)

\* C1: every data point of extracted_data is owned by an image of the
\* current session: its image_index is a valid index of image_data, also
\* after a second document without usable images is loaded.
C1_OwnerIsSessionImage ==
    \A i \in 1 .. Len(extracted_data) : OwnerValid(extracted_data[i])

\* C2: the value a right-click records is the first numeric substring of
\* the first span, in block/line/span order, among the spans its search
\* square intersects; later spans, lines and blocks do not change it.
C2_FirstInEncounterOrder ==
    \A i \in 1 .. Len(extracted_data) :
      LET data_point == extracted_data[i]
      IN  (data_point.source = "Manual click" /\ OwnerValid(data_point)) =>
            LET page  == image_data[data_point.image_index + 1].page
                first == FirstNumeric(QuerySpans(page, data_point))
            IN  data_point.value = StrValue(IF first = << >> THEN NoData ELSE first)

\* C3: on the overlay of the displayed image, rendered with the grid on, a
\* marker is drawn for a data point if and only if the data point is owned
\* by the displayed image.
C3_MarkerIffOwnedByDisplayed ==
    (Running /\ comboBox.currentIndex >= 0 /\ grid_checkbox) =>
      \A i \in 1 .. Len(extracted_data) :
        (\E k \in 1 .. Len(original_pixmap.markers) : original_pixmap.markers[k].dp = i)
          <=> extracted_data[i].image_index = comboBox.currentIndex

\* C4: after any wheel zooms, slider changes and image switches the scale
\* factor that widget_to_image_coords divides by lies in [0.1, 5.0].
C4_ScaleWithinBounds ==
    /\ ~FracLess(scale_factor, <<1, 10>>)
    /\ ~FracLess(<<5, 1>>, scale_factor)
    /\ scale_factor[1] > 0

\* C4 happens: a zoom of 5% was asked for and the image is displayed at the
\* lower bound, 10%.
C4_Witness ==
    /\ original_pixmap # None
    /\ scale_factor = <<1, 10>>
    /\ zoom_slider = SliderMin
    /\ current_pixmap[1] * 10 = original_pixmap.w

\* C5: every step other than a document load keeps the stored data points,
\* in order, as a prefix of extracted_data; a document load empties it.
C5_AppendOnly ==
    [][IF \E choice \in DocIds : load_pdf(choice)
       THEN extracted_data' = << >>
       ELSE IsPrefix(extracted_data, extracted_data')]_vars

\* C5 happens: a manual point is still first after an auto-extract appended
\* to the list, the image was switched, the view zoomed and the list
\* exported.
C5_Witness ==
    /\ Len(extracted_data) >= 2
    /\ extracted_data[1].source = "Manual click"
    /\ extracted_data[Len(extracted_data)].source = "Auto-extracted"
    /\ extracted_data[1].image_index # comboBox.currentIndex
    /\ scale_factor = <<5, 1>>
    /\ written # None

\* C6: an export writes one row per data point of extracted_data, in list
\* order, whatever image is displayed and whatever image owns the point.
C6_ExportAllInOrder ==
    written # None =>
      /\ Len(written.rows) = Len(extracted_data)
      /\ \A r \in 1 .. Len(extracted_data) :
           written.rows[r] = <<FormatF1(extracted_data[r].pdf_x),
                               FormatF1(extracted_data[r].pdf_y),
                               ValueStr(extracted_data[r].value),
                               extracted_data[r].source>>

\* C6 happens: a file was written while the list held points of the
\* displayed image and of another image.
C6_Witness ==
    /\ written # None
    /\ \E i, j \in 1 .. Len(extracted_data) :
         /\ extracted_data[i].image_index = comboBox.currentIndex
         /\ extracted_data[j].image_index # comboBox.currentIndex

\* What C7 expects of a step that scans the displayed image: the spans of
\* the page that intersect its rectangle, and for each of their numbers one
\* data point appended.
ScanAppendsOnePerNumber ==
    LET spans  == EncounterSpans(get_text(current_page, image_info.image_rect))
        counts == [k \in 1 .. Len(spans) |-> Len(FindAll(Strip(spans[k].text)))]
        old    == Len(extracted_data)
    IN  /\ err' = "none"
        /\ IsPrefix(extracted_data, extracted_data')
        /\ Len(extracted_data') = old + SumTo(counts, Len(spans))
        /\ \A k \in 1 .. Len(spans) : \A j \in 1 .. counts[k] :
             extracted_data'[old + SumTo(counts, k - 1) + j] =
               [pdf_x       |-> 5 * (spans[k].bbox.x0 + spans[k].bbox.x1),
                pdf_y       |-> 5 * (spans[k].bbox.y0 + spans[k].bbox.y1),
                value       |-> FloatValue(ParseFloat(FindAll(Strip(spans[k].text))[j])),
                source      |-> "Auto-extracted",
                image_index |-> comboBox.currentIndex]

\* C7: an auto-extract of the displayed image appends, for every span that
\* intersects the image rectangle and every numeric substring of it, one
\* data point at the centre of the span's bounding box, auto-extracted and
\* owned by the displayed image; spans without a number add nothing.
C7_ScanOnePerNumber ==
    [][auto_extract_data(Len(extracted_data')) => ScanAppendsOnePerNumber]_vars

\* C7 for the images of the loaded document only (the combo box has a
\* current entry): there the scan does append one data point per number.
C7_ScanOnePerNumberInSession ==
    [][(auto_extract_data(Len(extracted_data')) /\ comboBox.currentIndex >= 0)
         => ScanAppendsOnePerNumber]_vars

\* What C8 expects of a right-click on the displayed image.
ClickAppendsOne ==
    LET data_point == extracted_data'[Len(extracted_data')]
    IN  /\ err' = "none"
        /\ Len(extracted_data') = Len(extracted_data) + 1
        /\ IsPrefix(extracted_data, extracted_data')
        /\ data_point.source = "Manual click"
        /\ FirstNumeric(QuerySpans(current_page, data_point)) = << >>
             => data_point.value = StrValue(NoData)

\* C8: a right-click on a displayed image appends exactly one manual data
\* point and raises nothing; its value is "No data" when no span in the
\* search square holds a number.
C8_ClickAppendsOne ==
    [][\A pos \in ClickPts :
         (mousePressRight(pos, Len(extracted_data) + 1) /\ original_pixmap # None)
           => ClickAppendsOne]_vars

\* C8 for the images of the loaded document only: there every right-click
\* appends its data point.
C8_ClickAppendsOneInSession ==
    [][\A pos \in ClickPts :
         (mousePressRight(pos, Len(extracted_data) + 1) /\ comboBox.currentIndex >= 0)
           => ClickAppendsOne]_vars

\* C9: an image pixel sent to document space by image_to_pdf_coords and
\* back by the overlay's document-to-pixel mapping comes back within one
\* pixel of itself on each axis.
C9_RoundTripWithinOnePixel ==
    probe # None =>
      /\ Abs(probe.pixel[1] - probe.image_pos[1]) <= 1
      /\ Abs(probe.pixel[2] - probe.image_pos[2]) <= 1

Rendered == probe # None /\ "overlay" \in DOMAIN probe

\* C11 as the specification states it: for a rectangle without width the
\* overlay has no vertical line, for one without height no horizontal line.
C11_NoLineOnDegenerateAxis ==
    (Rendered /\ grid_checkbox) =>
      /\ RectWidth(image_info.image_rect) = 0 => probe.overlay.vlines = << >>
      /\ RectHeight(image_info.image_rect) = 0 => probe.overlay.hlines = << >>

\* C11 as the code has it: for a rectangle without width (height) the
\* renderer does not fail and draws exactly one vertical (horizontal) line,
\* at pixel 0, labelled with the rectangle's x0 (y1).
C11_OneLineOnDegenerateAxis ==
    (Rendered /\ grid_checkbox) =>
      /\ err = "none"
      /\ RectWidth(image_info.image_rect) = 0 =>
           probe.overlay.vlines = <<[pos |-> 0, label |-> image_info.image_rect.x0]>>
      /\ RectHeight(image_info.image_rect) = 0 =>
           probe.overlay.hlines = <<[pos |-> 0, label |-> image_info.image_rect.y1]>>

\* C11 happens: an overlay with the grid on was rendered for an image of
\* positive size on a rectangle that has a height but no width.
C11_Witness ==
    /\ Rendered /\ grid_checkbox
    /\ original_pixmap.w > 0
    /\ RectWidth(image_info.image_rect) = 0
    /\ RectHeight(image_info.image_rect) > 0
    /\ Len(probe.overlay.hlines) > 1

\* The result of a conversion step, if the last step was one.
Converted == probe # None /\ "image_pos" \in DOMAIN probe

ImageChange ==
    \/ \E index \in 0 .. 2 : select_image(index)
    \/ \E choice \in DocIds : load_pdf(choice) /\ image_pixmaps' # << >>

\* C13: whenever the displayed image changes, the scale factor is 1.0 and the
\* pan offset is (0, 0) afterwards, whatever they were before, and the image
\* is shown at its own size.
C13_ImageChangeResetsView ==
    [][ImageChange =>
         /\ scale_factor' = <<1, 1>>
         /\ pan_offset' = <<0, 0>>
         /\ current_pixmap' = <<original_pixmap'.w, original_pixmap'.h>>]_vars

\* C13 happens: the third image is displayed at scale 1.0 without pan, and
\* the zoom slider still stands where a zoom of the previous image left it.
C13_Witness ==
    /\ comboBox.currentIndex = 2
    /\ zoom_slider # 100
    /\ scale_factor = <<1, 1>>
    /\ pan_offset = <<0, 0>>
    /\ original_pixmap # None /\ original_pixmap.img = image_info.image_index

\* C14: with the grid disabled the renderer returns the base image as it is:
\* no grid line, no label and no data-point marker is added, whatever the
\* image and the data points.
C14_DisabledGridIsIdentity ==
    (Rendered /\ ~grid_checkbox) =>
      /\ probe.overlay = original_pixmap
      /\ probe.overlay.vlines = << >>
      /\ probe.overlay.hlines = << >>
      /\ probe.overlay.markers = << >>

\* C14 happens: an overlay was rendered with the grid disabled for an image
\* of positive size and extent that owns data points, which the renderer
\* would highlight with the grid enabled.
C14_Witness ==
    /\ Rendered /\ ~grid_checkbox
    /\ original_pixmap.w > 0
    /\ RectWidth(image_info.image_rect) > 0 /\ RectHeight(image_info.image_rect) > 0
    /\ extracted_data # << >>
    /\ \A row \in 1 .. Len(extracted_data) : MarkerShown(extracted_data[row], image_info)
    /\ VLines(image_info.image_rect.x0, image_info.image_rect, original_pixmap.w,
              grid_size_spinbox) # << >>

\* The rectangle of the axis-flip example, and the states that are about it:
\* an image with pixels on that rectangle, whose store holds the points
\* (0, 200) and (100, 0).
AxisFlipRect == Rect(0, 0, 100, 200)

OnAxisFlipRect ==
    /\ original_pixmap # None /\ original_pixmap.h > 0
    /\ image_info # None /\ image_info.image_rect = AxisFlipRect
    /\ extracted_data = CornerPoints(AxisFlipRect)

\* C15 as the specification states it: on the rectangle (0,0,100,200) both
\* mappings put document y = 200 on pixel row 0 and document y = 0 on the last
\* pixel row.
C15_BottomOnLastRow ==
    OnAxisFlipRect =>
      /\ (Rendered /\ grid_checkbox) =>
           /\ probe.overlay.markers[1].at[2] = 0
           /\ probe.overlay.markers[2].at[2] = original_pixmap.h - 1
      /\ (Converted /\ probe.image_pos[2] = 0) => probe.pdf_point[2] = 200
      /\ (Converted /\ probe.image_pos[2] = original_pixmap.h - 1) =>
           probe.pdf_point[2] = 0

\* C15 as the code has it: both mappings pair document y = 200 with pixel row
\* 0; the renderer puts document y = 0 on the image's bottom edge (row h, at
\* most one row off it), and the last pixel row h - 1 is given the document y
\* 200 div h, which is 0 only for images of more than 200 rows.
C15_BottomOnEdge ==
    OnAxisFlipRect =>
      /\ (Rendered /\ grid_checkbox) =>
           /\ probe.overlay.markers[1].at[2] = 0
           /\ probe.overlay.markers[2].at[2] \in
                  {original_pixmap.h - 1, original_pixmap.h}
      /\ (Converted /\ probe.image_pos[2] = 0) => probe.pdf_point[2] = 200
      /\ (Converted /\ probe.image_pos[2] = original_pixmap.h - 1) =>
           /\ probe.pdf_point[2] = 200 \div original_pixmap.h
           /\ probe.pdf_point[2] = 0 <=> original_pixmap.h > 200

\* C15 happens: both points of the store were highlighted on an image of
\* 50 rows on the rectangle (0,0,100,200).
C15_Witness ==
    /\ OnAxisFlipRect /\ original_pixmap.h = 50
    /\ Rendered /\ grid_checkbox
    /\ Len(probe.overlay.markers) = 2

\* An overlay with the grid on was rendered for an image with pixels on a
\* rectangle that has a height.
RenderedRows ==
    /\ Rendered /\ grid_checkbox
    /\ original_pixmap.h > 0
    /\ RectHeight(image_info.image_rect) > 0

\* The document y image_to_pdf_coords gives for a pixel row of the image.
RowY(row) ==
    ImageToPdf(<<0, row>>, image_info.image_rect, original_pixmap.w,
               original_pixmap.h)[2]

\* C16 as the specification states it: every horizontal line is labelled with
\* the document y that image_to_pdf_coords assigns to the line's pixel row,
\* and a line on a higher row of the image has the larger label.
C16_LabelIsRowY ==
    RenderedRows =>
      \A k \in 1 .. Len(probe.overlay.hlines) :
        /\ probe.overlay.hlines[k].label = RowY(probe.overlay.hlines[k].pos)
        /\ \A j \in 1 .. Len(probe.overlay.hlines) :
             probe.overlay.hlines[j].pos < probe.overlay.hlines[k].pos =>
               probe.overlay.hlines[j].label > probe.overlay.hlines[k].label

\* C16 as the code has it: the k-th horizontal line (k = 0, 1, ... while
\* k * interval <= height) is labelled y1 - k * interval and drawn on the
\* pixel row whose document extent, its two edges included, holds that y; a
\* line on a higher row of the image has the larger label.
C16_LabelWithinRow ==
    RenderedRows =>
      LET lines    == probe.overlay.hlines
          img_rect == image_info.image_rect
          H        == RectHeight(img_rect)
          h        == original_pixmap.h
      IN  /\ Len(lines) = H \div grid_size_spinbox + 1
          /\ \A k \in 1 .. Len(lines) :
               /\ lines[k].label = img_rect.y1 - (k - 1) * grid_size_spinbox
               /\ lines[k].pos * H <= (img_rect.y1 - lines[k].label) * h
               /\ (img_rect.y1 - lines[k].label) * h <= (lines[k].pos + 1) * H
               /\ \A j \in 1 .. Len(lines) :
                    lines[j].pos < lines[k].pos => lines[j].label > lines[k].label

\* C16 happens: three horizontal lines were drawn on an image of 3 rows on a
\* rectangle 25 units high that does not start at 0.
C16_Witness ==
    /\ RenderedRows
    /\ original_pixmap.h = 3
    /\ RectHeight(image_info.image_rect) = 25 /\ image_info.image_rect.y0 > 0
    /\ Len(probe.overlay.hlines) = 3

Located == probe # None /\ "image_point" \in DOMAIN probe

\* C18: the draw origin widget_to_image_coords subtracts is the one the image
\* was last painted at: a click on the top-left corner of the image as it is
\* on the screen gives image pixel (0, 0).
C18_PaintedCornerIsPixelZero ==
    (Located /\ probe.widget_pos = probe.painted_at) => probe.image_point = <<0, 0>>

\* The handlers that ran inside the last load, if the loads are traced.
Traced == probe # None /\ "seen" \in DOMAIN probe

\* C20: every display handler that a signal of the combo box starts inside
\* load_pdf finds image_pixmaps and image_data of the same length, and its
\* index is either outside the lists or the index of an image that is in
\* both of them.
C20_HandlersSeeConsistentLists ==
    Traced =>
      \A k \in 1 .. Len(probe.seen) :
        LET handler == probe.seen[k]
        IN  /\ Len(handler.image_pixmaps) = Len(handler.image_data)
            /\ (0 <= handler.index /\ handler.index < Len(handler.image_pixmaps)) =>
                 /\ handler.index < Len(handler.image_data)
                 /\ handler.image_data[handler.index + 1].original_pixmap =
                        handler.image_pixmaps[handler.index + 1]

\* C20 happens: a document with images was loaded over another one; the
\* handler of clear() ran with index -1 on empty lists and the handler of the
\* first addItem ran with index 0 on lists of one image.
C20_Witness ==
    /\ Traced
    /\ Len(image_pixmaps) > 1
    /\ Len(probe.seen) = 2
    /\ probe.seen[1].index = -1 /\ probe.seen[1].image_pixmaps = << >>
    /\ probe.seen[2].index = 0 /\ Len(probe.seen[2].image_data) = 1

\* The actions that keep the displayed image: a right click, the scan, and a
\* change of the grid check box or of the grid interval.
SameImageAction ==
    \/ \E pos \in ClickPts : mousePressRight(pos, MaxDataView)
    \/ auto_extract_data(MaxDataView)
    \/ grid_toggled
    \/ \E v \in GridRequests : grid_size_changed(v)

\* C21: an action that does not change which image is displayed leaves the
\* scale factor and the pan offset as they were.
C21_SameImageKeepsView ==
    [][SameImageAction =>
         /\ scale_factor' = scale_factor
         /\ pan_offset' = pan_offset]_vars

\* C22: when the session's image list is empty, Auto-Extract returns without
\* an error and without appending a data point.
C22_NoScanWithoutImages ==
    [][(auto_extract_data(MaxData) /\ image_data = << >>) =>
         /\ err' = "none"
         /\ extracted_data' = extracted_data]_vars

\* C23: whenever the store holds a data point, the export button is enabled.
C23_ExportEnabledWithData ==
    extracted_data # << >> => exportButton

\* C24: the scale factor applied to the displayed image is the value of the
\* zoom slider divided by 100.
C24_SliderIsScale ==
    original_pixmap # None => scale_factor = Frac(zoom_slider, 100)

\* C25: whenever run_export has returned, the layer that was chosen has no
\* selected feature, whichever way the export went.
C25_NoSelectionAfterExport ==
    returned # None => selection[returned.layer] = {}

\* C25 happens: a filtered export of one feature succeeded on a layer on
\* which the user had selected features before.
C25_Witness ==
    /\ returned # None
    /\ returned.outcome = "Success" /\ returned.filtered
    /\ returned.count = 1
    /\ returned.before # {}
    /\ selection[returned.layer] = {}

=============================================================================
